---- MODULE Spec2Model ----
(***************************************************************************)
(* Price-suggestion engine of relatorio_equipamentos (src/src/pricing.py)  *)
(* and the pipeline that drives it (src/src/pipeline.py).                  *)
(*                                                                         *)
(* Data representation                                                     *)
(*  - a text (Python str) is a sequence of one-character strings;          *)
(*  - a cell of the history frame is typed: [str |-> text] or [int |-> n], *)
(*    because pandas.read_csv infers the type of a column from its text;   *)
(*  - a price is a non-negative integer counting quarters of a currency    *)
(*    unit, so that the midpoint a float median computes is exact; the     *)
(*    input prices are whole units (multiples of 4);                       *)
(*  - NaN (numpy.nan, the "unset" marker) is the number -1, which no       *)
(*    validated price can be; every comparison guards it with IsNa first.  *)
(*  - a file is [exists |-> BOOLEAN, rows |-> sequence of entries].        *)
(***************************************************************************)
EXTENDS Integers, Sequences, FiniteSets, TLC

VARIABLES
    hist_parquet,   \* config/precos_historico.parquet
    hist_csv,       \* config/precos_historico.csv
    df_validado,    \* the row-set the caller holds and passes in
    sugest,         \* the series last returned by sugerir_precos
    df_aj,          \* the row-set last returned by aplicar_preco_sugerido
    df_aj2,         \* the row-set returned by applying it to df_aj again
    call,           \* record of the last call: its name, what it read and wrote
    now,            \* the wall clock read by pd.Timestamp.now()
    pipe,           \* the pipeline run in progress (processar_arquivo)
    writers         \* the processes running atualizar_historico at the same time

vars == <<hist_parquet, hist_csv, df_validado, sugest, df_aj, df_aj2, call, now, pipe,
         writers>>

----------------------------------------------------------------------------
(* Bounds of the model *)

MaxRows == 2        \* rows of a batch passed to the estimator
MaxInitHist == 2    \* entries of a store the estimator specification starts from
MaxAddRows == 1     \* rows of a batch passed to the History Updater
MaxClock == 1       \* readings of the clock
MaxVals == 3        \* values of a group whose median is taken
HistCap == 2        \* stands for the retention cap 200_000 of salvar_historico

----------------------------------------------------------------------------
(* Values *)

NaN == -1

IsNa(v) == v = NaN
NotNa(v) == v # NaN

\* Python's  v > 0  and  v <= 0  on floats: both are False on NaN
Gt0(v) == NotNa(v) /\ v > 0
Le0(v) == NotNa(v) /\ v <= 0

StrCell(s) == [str |-> s]
IntCell(n) == [int |-> n]
IsInt(c) == DOMAIN c = {"int"}

RECURSIVE LStrip(_)
LStrip(s) == IF s # <<>> /\ Head(s) = " " THEN LStrip(Tail(s)) ELSE s

RECURSIVE RStrip(_)
RStrip(s) == IF s # <<>> /\ s[Len(s)] = " " THEN RStrip(SubSeq(s, 1, Len(s) - 1)) ELSE s

\* str.strip()
Strip(s) == RStrip(LStrip(s))

Digits == <<"0", "1", "2", "3", "4", "5", "6", "7", "8", "9">>
IsDigit(ch) == \E d \in 1..10 : Digits[d] = ch
DigitVal(ch) == (CHOOSE d \in 1..10 : Digits[d] = ch) - 1

\* the text pandas writes for an integer
RECURSIVE IntText(_)
IntText(n) == IF n < 10 THEN <<Digits[n + 1]>>
              ELSE IntText(n \div 10) \o <<Digits[(n % 10) + 1]>>

\* a text read_csv takes for an integer, and the integer it reads
IsIntText(s) == s # <<>> /\ \A k \in 1..Len(s) : IsDigit(s[k])
RECURSIVE TextInt(_)
TextInt(s) == IF Len(s) = 1 THEN DigitVal(s[1])
              ELSE 10 * TextInt(SubSeq(s, 1, Len(s) - 1)) + DigitVal(s[Len(s)])

\* the text of a typed cell, as to_csv writes it
CellText(c) == IF IsInt(c) THEN IntText(c.int) ELSE c.str

----------------------------------------------------------------------------
(* Median of a group, as pandas computes it: missing values are skipped,   *)
(* an all-missing group has median NaN, an even count gives the midpoint.  *)

RECURSIVE Insert(_, _)
Insert(x, s) == IF s = <<>> THEN <<x>>
                ELSE IF x <= Head(s) THEN <<x>> \o s
                ELSE <<Head(s)>> \o Insert(x, Tail(s))

RECURSIVE SortAsc(_)
SortAsc(s) == IF s = <<>> THEN <<>> ELSE Insert(Head(s), SortAsc(Tail(s)))

DropNa(s) == SelectSeq(s, NotNa)

\* the lower of the two middle values for an even count
MedianLow(s) == s[(Len(s) + 1) \div 2]

MedianMid(s) == LET n == Len(s) IN
    IF n % 2 = 1 THEN s[(n + 1) \div 2]
    ELSE (s[n \div 2] + s[(n \div 2) + 1]) \div 2

Median(vals) == LET s == SortAsc(DropNa(vals)) IN
    IF s = <<>> THEN NaN ELSE MedianMid(s)

----------------------------------------------------------------------------
(* Historical Store: the two files and the frames read from them *)

NoFile == [exists |-> FALSE, rows |-> <<>>]
FileOf(rows) == [exists |-> TRUE, rows |-> rows]

FONTE == <<"i", "n", "p", "u", "t", "_", "a", "t", "u", "a", "l">>

\* pandas.read_parquet: the frame as it was written, cell types kept
ReadParquet(f) == f.rows

\* DataFrame.to_csv: every cell becomes its text
ToCsv(rows) == [k \in 1..Len(rows) |->
    [Loja |-> CellText(rows[k].Loja), Equipamento |-> CellText(rows[k].Equipamento),
     PrecoReal |-> rows[k].PrecoReal, Fonte |-> rows[k].Fonte, ts |-> rows[k].ts]]

\* pandas.read_csv: a column whose texts are all integers is read as integers,
\* any other column keeps its texts
ReadCsv(f) == LET t == f.rows
                  lojaInt == t # <<>> /\ \A k \in 1..Len(t) : IsIntText(t[k].Loja)
                  eqInt == t # <<>> /\ \A k \in 1..Len(t) : IsIntText(t[k].Equipamento)
              IN [k \in 1..Len(t) |->
                    [Loja |-> IF lojaInt THEN IntCell(TextInt(t[k].Loja)) ELSE StrCell(t[k].Loja),
                     Equipamento |-> IF eqInt THEN IntCell(TextInt(t[k].Equipamento))
                                     ELSE StrCell(t[k].Equipamento),
                     PrecoReal |-> t[k].PrecoReal, Fonte |-> t[k].Fonte, ts |-> t[k].ts]]

\* the load that answers with the content of a file whose read failed
carregar_historico_last_good(pq, csv, pq_ok, csv_ok) ==
    IF pq.exists /\ pq_ok THEN ReadParquet(pq)
    ELSE IF csv.exists /\ csv_ok THEN ReadCsv(csv)
    ELSE IF pq.exists THEN ReadParquet(pq)
    ELSE IF csv.exists THEN ReadCsv(csv)
    ELSE <<>>

\* the load with the csv file tried first
carregar_historico_csv_first(pq, csv, pq_ok, csv_ok) ==
    IF csv.exists /\ csv_ok THEN ReadCsv(csv)
    ELSE IF pq.exists /\ pq_ok THEN ReadParquet(pq)
    ELSE <<>>

\* carregar_historico; pq_ok, csv_ok: whether the read of each file succeeds
carregar_historico(pq, csv, pq_ok, csv_ok) ==
    IF pq.exists /\ pq_ok THEN ReadParquet(pq)
    ELSE IF csv.exists /\ csv_ok THEN ReadCsv(csv)
    ELSE <<>>

\* which file carregar_historico returned: "parquet", "csv" or "none"
LoadedFrom(pq, csv, pq_ok, csv_ok) ==
    IF pq.exists /\ pq_ok THEN "parquet"
    ELSE IF csv.exists /\ csv_ok THEN "csv"
    ELSE "none"

\* the frame kept whole, and the frame cut to its first rows (iloc[:200_000])
TrimAll(df_hist) == df_hist
TrimHead(df_hist) ==
    IF Len(df_hist) > HistCap THEN SubSeq(df_hist, 1, HistCap) ELSE df_hist

\* df_hist.iloc[-200_000:] when len(df_hist) > 200_000
Trim(df_hist) ==
    IF Len(df_hist) > HistCap
    THEN SubSeq(df_hist, Len(df_hist) - HistCap + 1, Len(df_hist))
    ELSE df_hist

\* to_parquet converts an object column only when its cells have one type
ParquetWritable(rows) ==
    /\ \A j, k \in 1..Len(rows) : IsInt(rows[j].Loja) = IsInt(rows[k].Loja)
    /\ \A j, k \in 1..Len(rows) : IsInt(rows[j].Equipamento) = IsInt(rows[k].Equipamento)

\* the save with the csv file written in every case
salvar_historico_both(df_hist, pq, csv, w_ok) ==
    LET kept == Trim(df_hist) IN
    [pq |-> IF w_ok /\ ParquetWritable(kept) THEN FileOf(kept) ELSE pq,
     csv |-> FileOf(ToCsv(kept)),
     wrote |-> IF w_ok /\ ParquetWritable(kept) THEN "parquet" ELSE "csv",
     rows |-> kept]

\* salvar_historico; w_ok: whether the parquet writer is usable.
\* Result: the two files afterwards and which of them was written.
salvar_historico(df_hist, pq, csv, w_ok) ==
    LET kept == Trim(df_hist) IN
    IF w_ok /\ ParquetWritable(kept)
    THEN [pq |-> FileOf(kept), csv |-> csv, wrote |-> "parquet", rows |-> kept]
    ELSE [pq |-> pq, csv |-> FileOf(ToCsv(kept)), wrote |-> "csv", rows |-> kept]

\* the selection with a price of zero let through
QualifiesGe0(row) == NotNa(row.Preco_real) /\ row.Preco_real >= 0

\* rows of the batch with 'Preço real' present and > 0
Qualifies(row) == NotNa(row.Preco_real) /\ row.Preco_real > 0

\* df_add of atualizar_historico: the selected rows, projected, tagged and stamped
DfAdd(dfv, stamp) ==
    LET sel == SelectSeq(dfv, Qualifies) IN
    [k \in 1..Len(sel) |->
        [Loja |-> StrCell(sel[k].Loja), Equipamento |-> StrCell(sel[k].Equipamento),
         PrecoReal |-> sel[k].Preco_real, Fonte |-> FONTE, ts |-> stamp]]

\* the update with the new entries put before the loaded ones
atualizar_historico_prepend(dfv, pq, csv, stamp, pq_ok, csv_ok, w_ok) ==
    LET df_add == DfAdd(dfv, stamp)
        hist == carregar_historico(pq, csv, pq_ok, csv_ok)
        sv == salvar_historico(df_add \o hist, pq, csv, w_ok)
    IN IF dfv = <<>> \/ df_add = <<>>
       THEN [pq |-> pq, csv |-> csv, ret |-> 0, io |-> FALSE,
             loaded |-> <<>>, added |-> <<>>, wrote |-> "none", rows |-> <<>>]
       ELSE [pq |-> sv.pq, csv |-> sv.csv, ret |-> Len(df_add), io |-> TRUE,
             loaded |-> hist, added |-> df_add, wrote |-> sv.wrote, rows |-> sv.rows]

\* the update without its two early returns
atualizar_historico_sem_retorno(dfv, pq, csv, stamp, pq_ok, csv_ok, w_ok) ==
    LET df_add == DfAdd(dfv, stamp)
        hist == carregar_historico(pq, csv, pq_ok, csv_ok)
        sv == salvar_historico(hist \o df_add, pq, csv, w_ok)
    IN [pq |-> sv.pq, csv |-> sv.csv, ret |-> Len(df_add), io |-> TRUE,
        loaded |-> hist, added |-> df_add, wrote |-> sv.wrote, rows |-> sv.rows]

\* atualizar_historico. Result: the files afterwards, the count returned, and a
\* trace of the load and the save it made (io = FALSE: it returned before any I/O)
atualizar_historico(dfv, pq, csv, stamp, pq_ok, csv_ok, w_ok) ==
    LET df_add == DfAdd(dfv, stamp)
        hist == carregar_historico(pq, csv, pq_ok, csv_ok)
        sv == salvar_historico(hist \o df_add, pq, csv, w_ok)
    IN IF dfv = <<>> \/ df_add = <<>>
       THEN [pq |-> pq, csv |-> csv, ret |-> 0, io |-> FALSE,
             loaded |-> <<>>, added |-> <<>>, wrote |-> "none", rows |-> <<>>]
       ELSE [pq |-> sv.pq, csv |-> sv.csv, ret |-> Len(df_add), io |-> TRUE,
             loaded |-> hist, added |-> df_add, wrote |-> sv.wrote, rows |-> sv.rows]

----------------------------------------------------------------------------
(* Suggestion Estimator and Price Applier.                                  *)
(* A row of a validated row-set is                                          *)
(*   [Loja, Equipamento, Preco_sugerido, Preco_real]                        *)
(* ('Preço sugerido' and 'Preço real'; 'Quantidade' is neither read nor     *)
(* written by pricing.py and is left out).                                  *)

\* DataFrame.copy(): a new frame with the same rows; alias = FALSE says that
\* writes to the new frame do not reach the frame it was copied from
DfCopyAlias(d) == [rows |-> d, alias |-> TRUE]
DfCopy(d) == [rows |-> d, alias |-> FALSE]

\* "Garante tipos básicos": astype(str).str.strip() on the two identifiers;
\* to_numeric leaves the prices of a validated row-set as they are
Normalize(d) == [k \in 1..Len(d) |->
    [d[k] EXCEPT !.Loja = Strip(@), !.Equipamento = Strip(@)]]

\* med_hist.get(chave, nan): the median of the group of the history frame whose
\* keys equal the row's trimmed texts; the history's keys are taken as loaded
MedHist(hist, loja, eq) ==
    LET grp == SelectSeq(hist, LAMBDA e :
                   e.Loja = StrCell(loja) /\ e.Equipamento = StrCell(eq))
    IN IF grp = <<>> THEN NaN
       ELSE Median([k \in 1..Len(grp) |-> grp[k].PrecoReal])

\* med_atual_real_por_eq.get(eq) and med_atual_sug_por_eq.get(eq)
MedAtualReal(df, eq) ==
    LET grp == SelectSeq(df, LAMBDA r : r.Equipamento = eq)
    IN Median([k \in 1..Len(grp) |-> grp[k].Preco_real])

MedAtualSug(df, eq) ==
    LET grp == SelectSeq(df, LAMBDA r : r.Equipamento = eq)
    IN Median([k \in 1..Len(grp) |-> grp[k].Preco_sugerido])

\* the loop body with the declared price looked at after the history
SugerirRowHistFirst(df, hist, row) ==
    LET v2 == MedHist(hist, row.Loja, row.Equipamento)
        v1 == IF IsNa(v2) \/ Le0(v2) THEN row.Preco_sugerido ELSE v2
        v3 == IF IsNa(v1) \/ Le0(v1) THEN MedAtualReal(df, row.Equipamento) ELSE v1
        v4 == IF IsNa(v3) \/ Le0(v3) THEN MedAtualSug(df, row.Equipamento) ELSE v3
    IN IF NotNa(v4) /\ v4 > 0 THEN v4 ELSE NaN

\* the loop body without the final test of the value found
SugerirRowNoFinal(df, hist, row) ==
    IF NotNa(row.Preco_sugerido) /\ row.Preco_sugerido > 0
    THEN row.Preco_sugerido
    ELSE LET v2 == MedHist(hist, row.Loja, row.Equipamento)
             v3 == IF IsNa(v2) \/ Le0(v2) THEN MedAtualReal(df, row.Equipamento) ELSE v2
         IN IF IsNa(v3) \/ Le0(v3) THEN MedAtualSug(df, row.Equipamento) ELSE v3

\* the loop body of sugerir_precos for one row of the normalized frame
SugerirRow(df, hist, row) ==
    IF NotNa(row.Preco_sugerido) /\ row.Preco_sugerido > 0
    THEN row.Preco_sugerido
    ELSE LET v2 == MedHist(hist, row.Loja, row.Equipamento)
             v3 == IF IsNa(v2) \/ Le0(v2) THEN MedAtualReal(df, row.Equipamento) ELSE v2
             v4 == IF IsNa(v3) \/ Le0(v3) THEN MedAtualSug(df, row.Equipamento) ELSE v3
         IN IF NotNa(v4) /\ v4 > 0 THEN v4 ELSE NaN

\* the estimator returning its values in the reverse of the row order
sugerir_precos_reversed(dfv, hist) ==
    IF dfv = <<>> THEN [ret |-> <<>>, arg |-> dfv]
    ELSE LET c == DfCopy(dfv)
             df == Normalize(c.rows)
         IN [ret |-> [k \in 1..Len(df) |-> SugerirRow(df, hist, df[Len(df) + 1 - k])],
             arg |-> IF c.alias THEN df ELSE dfv]

\* sugerir_precos on the frame dfv with the history frame it loaded.
\* ret: the series returned; arg: the caller's frame after the call
sugerir_precos(dfv, hist) ==
    IF dfv = <<>> THEN [ret |-> <<>>, arg |-> dfv]
    ELSE LET c == DfCopy(dfv)
             df == Normalize(c.rows)
         IN [ret |-> [k \in 1..Len(df) |-> SugerirRow(df, hist, df[k])],
             arg |-> IF c.alias THEN df ELSE dfv]

\* mask of aplicar_preco_sugerido: the target is missing or <= 0
MaskNaOnly(v) == IsNa(v)
Mask(v) == IsNa(v) \/ Le0(v)

\* df[col] = sugest[mask]: the rows outside the mask lose their value
AssignMaskedNoLoc(df, s) == [k \in 1..Len(df) |->
    IF Mask(df[k].Preco_sugerido) THEN [df[k] EXCEPT !.Preco_sugerido = s[k]]
    ELSE [df[k] EXCEPT !.Preco_sugerido = NaN]]

\* df.loc[mask, coluna_destino] = sugest[mask], coluna_destino = 'Preço sugerido'
AssignMasked(df, s) == [k \in 1..Len(df) |->
    IF Mask(df[k].Preco_sugerido) THEN [df[k] EXCEPT !.Preco_sugerido = s[k]]
    ELSE df[k]]

\* aplicar_preco_sugerido on the frame dfv (target column 'Preço sugerido', which
\* every validated row-set has). ret: the frame returned; sugest: the series the
\* estimator gave it; arg: the caller's frame after the call; fresh: the frame
\* returned is another object than the caller's
aplicar_preco_sugerido(dfv, hist) ==
    LET c == DfCopy(dfv)
        sg == sugerir_precos(dfv, hist)
        df == IF c.alias THEN sg.arg ELSE c.rows
        out == AssignMasked(df, sg.ret)
    IN [ret |-> out, sugest |-> sg.ret, arg |-> IF c.alias THEN out ELSE sg.arg,
        fresh |-> ~c.alias]

----------------------------------------------------------------------------
(* Inputs *)

\* (store, equipment) pairs of the rows: the pair the stores below hold entries
\* for, the same equipment in another store, and another equipment, whose name
\* carries a trailing blank
RowKeys == {<<(<<"7">>), (<<"N">>)>>, <<(<<"9">>), (<<"N">>)>>, <<(<<"7">>), (<<"M", " ">>)>>}
SugValues == {NaN, 0, 8}
RealValues == {NaN, 16}

Rows == {[Loja |-> k[1], Equipamento |-> k[2], Preco_sugerido |-> sg, Preco_real |-> re] :
            k \in RowKeys, sg \in SugValues, re \in RealValues}

SeqsUpTo(S, n) == UNION {[1..m -> S] : m \in 0..n}

Batches == SeqsUpTo(Rows, MaxRows)

Entry(loja, eq, price, stamp) ==
    [Loja |-> StrCell(loja), Equipamento |-> StrCell(eq), PrecoReal |-> price,
     Fonte |-> FONTE, ts |-> stamp]

\* stores the History Updater leaves behind: entries of store "7", equipment "N",
\* held by the parquet file or, where its writer was not usable, by the csv file
InitHistFull == <<Entry(<<"7">>, <<"N">>, 8, 0), Entry(<<"7">>, <<"N">>, 16, 0),
                  Entry(<<"7">>, <<"N">>, 16, 0), Entry(<<"7">>, <<"N">>, 8, 0)>>

InitHists == {SubSeq(InitHistFull, 1, n) : n \in 1..MaxInitHist}

InitStores == {[pq |-> NoFile, csv |-> NoFile]}
    \cup {[pq |-> FileOf(h), csv |-> NoFile] : h \in InitHists}
    \cup {[pq |-> NoFile, csv |-> FileOf(ToCsv(h))] : h \in InitHists}

\* the record of a call; a read is `clean` when no file it tried failed to read
NoCall == [op |-> "init", from |-> "none", clean |-> TRUE, loaded |-> <<>>,
           added |-> <<>>, wrote |-> "none", ret |-> 0, io |-> FALSE, arg |-> <<>>,
           fresh |-> TRUE]

CleanRead(pq, csv, pq_ok, csv_ok) ==
    /\ pq.exists => pq_ok
    /\ (~pq.exists /\ csv.exists) => csv_ok

\* the outcomes of the reads carregar_historico can attempt: a file is read only
\* if it exists, the csv file only if the parquet file gave nothing
ReadOutcomes(pq, csv) ==
    {o \in [pq_ok : BOOLEAN, csv_ok : BOOLEAN] :
        /\ ~pq.exists => o.pq_ok
        /\ (~csv.exists \/ (pq.exists /\ o.pq_ok)) => o.csv_ok}

Idle == [pc |-> "idle"]

----------------------------------------------------------------------------
(* Specification of the estimator and the applier called on a row-set *)

InitPricing ==
    /\ \E st \in InitStores : hist_parquet = st.pq /\ hist_csv = st.csv
    /\ df_validado \in Batches
    /\ sugest = <<>>
    /\ df_aj = <<>>
    /\ df_aj2 = <<>>
    /\ call = NoCall
    /\ now = 0
    /\ pipe = Idle
    /\ writers = <<>>

\* the estimator saving the history frame it loaded
SugerirSalva ==
    /\ call.op = "init"
    /\ \E o \in ReadOutcomes(hist_parquet, hist_csv) :
        LET hist == carregar_historico(hist_parquet, hist_csv, o.pq_ok, o.csv_ok)
            r == sugerir_precos(df_validado, hist)
            sv == salvar_historico(hist, hist_parquet, hist_csv, TRUE)
        IN /\ sugest' = r.ret
           /\ df_validado' = r.arg
           /\ hist_parquet' = sv.pq
           /\ hist_csv' = sv.csv
           /\ call' = [NoCall EXCEPT !.op = "sugerir", !.loaded = hist,
                          !.from = LoadedFrom(hist_parquet, hist_csv, o.pq_ok, o.csv_ok),
                          !.clean = CleanRead(hist_parquet, hist_csv, o.pq_ok, o.csv_ok),
                          !.arg = df_validado]
    /\ UNCHANGED <<df_aj, df_aj2, now, pipe, writers>>

\* sugest = sugerir_precos(df_validado)
Sugerir ==
    /\ call.op = "init"
    /\ \E o \in ReadOutcomes(hist_parquet, hist_csv) :
        LET hist == carregar_historico(hist_parquet, hist_csv, o.pq_ok, o.csv_ok)
            r == sugerir_precos(df_validado, hist)
        IN /\ sugest' = r.ret
           /\ df_validado' = r.arg
           /\ call' = [NoCall EXCEPT !.op = "sugerir", !.loaded = hist,
                          !.from = LoadedFrom(hist_parquet, hist_csv, o.pq_ok, o.csv_ok),
                          !.clean = CleanRead(hist_parquet, hist_csv, o.pq_ok, o.csv_ok),
                          !.arg = df_validado]
    /\ UNCHANGED <<hist_parquet, hist_csv, df_aj, df_aj2, now, pipe, writers>>

\* df_aj = aplicar_preco_sugerido(df_validado)
Aplicar ==
    /\ call.op = "init"
    /\ \E o \in ReadOutcomes(hist_parquet, hist_csv) :
        LET hist == carregar_historico(hist_parquet, hist_csv, o.pq_ok, o.csv_ok)
            r == aplicar_preco_sugerido(df_validado, hist)
        IN /\ df_aj' = r.ret
           /\ sugest' = r.sugest
           /\ df_validado' = r.arg
           /\ call' = [NoCall EXCEPT !.op = "aplicar", !.loaded = hist,
                          !.from = LoadedFrom(hist_parquet, hist_csv, o.pq_ok, o.csv_ok),
                          !.clean = CleanRead(hist_parquet, hist_csv, o.pq_ok, o.csv_ok),
                          !.arg = df_validado, !.fresh = r.fresh]
    /\ UNCHANGED <<hist_parquet, hist_csv, df_aj2, now, pipe, writers>>

\* df_aj2 = aplicar_preco_sugerido(df_aj): the applier on its own output
Reaplicar ==
    /\ call.op = "aplicar"
    /\ \E o \in ReadOutcomes(hist_parquet, hist_csv) :
        LET hist == carregar_historico(hist_parquet, hist_csv, o.pq_ok, o.csv_ok)
            r == aplicar_preco_sugerido(df_aj, hist)
        IN /\ df_aj2' = r.ret
           /\ df_aj' = r.arg
           /\ call' = [call EXCEPT !.op = "reaplicar",
                          !.clean = call.clean
                                    /\ CleanRead(hist_parquet, hist_csv, o.pq_ok, o.csv_ok),
                          !.arg = df_aj, !.fresh = r.fresh]
    /\ UNCHANGED <<hist_parquet, hist_csv, df_validado, sugest, now, pipe, writers>>

NextPricing == Sugerir \/ Aplicar \/ Reaplicar

SpecPricing == InitPricing /\ [][NextPricing]_vars

----------------------------------------------------------------------------
(* Claims about the estimator and the applier (SpecPricing) *)

\* the entries of the persisted store, as texts: those of the parquet file when
\* there is one, else those of the csv file
StoreEntries == IF hist_parquet.exists THEN ToCsv(hist_parquet.rows)
                ELSE IF hist_csv.exists THEN hist_csv.rows
                ELSE <<>>

\* realized prices of the entries stored for the pair of a row
PairPrices(row) ==
    LET grp == SelectSeq(StoreEntries, LAMBDA e :
                   e.Loja = Strip(row.Loja) /\ e.Equipamento = Strip(row.Equipamento))
    IN [k \in 1..Len(grp) |-> grp[k].PrecoReal]

\* values of a column over the rows of a batch with the equipment of a row
BatchValues(batch, row, col) ==
    LET grp == SelectSeq(batch, LAMBDA r :
                   Strip(r.Equipamento) = Strip(row.Equipamento))
    IN [k \in 1..Len(grp) |-> grp[k][col]]

\* the first of the four rules that yields a value present and > 0, else unset
Cascade(batch, row) ==
    LET t1 == row.Preco_sugerido
        t2 == Median(PairPrices(row))
        t3 == Median(BatchValues(batch, row, "Preco_real"))
        t4 == Median(BatchValues(batch, row, "Preco_sugerido"))
    IN IF Gt0(t1) THEN t1
       ELSE IF Gt0(t2) THEN t2
       ELSE IF Gt0(t3) THEN t3
       ELSE IF Gt0(t4) THEN t4
       ELSE NaN

\* C1: for every row of the batch and every content of the store (read without
\* failure), sugerir_precos returns the value of the first of the four rules that
\* yields a value present and > 0, and unset when none does.
C1_Cascade ==
    (call.op = "sugerir" /\ call.clean) =>
        /\ Len(sugest) = Len(call.arg)
        /\ \A i \in 1..Len(call.arg) : sugest[i] = Cascade(call.arg, call.arg[i])

\* C2: a row with a declared suggested price > 0 gets exactly that price from the
\* estimator, whatever the store and the other rows hold.
C2_DeclaredWins ==
    call.op = "sugerir" =>
        \A i \in 1..Len(call.arg) :
            Gt0(call.arg[i].Preco_sugerido) => sugest[i] = call.arg[i].Preco_sugerido

\* a declared price wins over a usable historical median that differs from it
C2_Witness ==
    /\ call.op = "sugerir"
    /\ \E i \in 1..Len(call.arg) :
        /\ Gt0(call.arg[i].Preco_sugerido)
        /\ Gt0(Median(PairPrices(call.arg[i])))
        /\ Gt0(MedHist(call.loaded, Strip(call.arg[i].Loja), Strip(call.arg[i].Equipamento)))
        /\ Median(PairPrices(call.arg[i])) # call.arg[i].Preco_sugerido
        /\ sugest[i] = call.arg[i].Preco_sugerido

\* C3: a row with no usable declared price whose (store, equipment) pair has at
\* least one entry in the store gets the median of those entries' realized prices.
C3_HistoricalMedian ==
    (call.op = "sugerir" /\ call.clean) =>
        \A i \in 1..Len(call.arg) :
            (~Gt0(call.arg[i].Preco_sugerido) /\ PairPrices(call.arg[i]) # <<>>)
                => sugest[i] = Median(PairPrices(call.arg[i]))

\* C4 as stated: the applier applied to its own output, the store unchanged and
\* read without failure both times, returns that output again.
C4_Idempotent ==
    (call.op = "reaplicar" /\ call.clean) => df_aj2 = df_aj

\* C4 as amended: the second application changes no row whose suggested price is
\* present and > 0 after the first; only rows the first one left unset may change,
\* and only in their suggested price.
C4_FilledKept ==
    call.op = "reaplicar" =>
        /\ Len(df_aj2) = Len(df_aj)
        /\ \A i \in 1..Len(df_aj) :
            /\ Gt0(df_aj[i].Preco_sugerido) => df_aj2[i] = df_aj[i]
            /\ df_aj2[i] = [df_aj[i] EXCEPT !.Preco_sugerido = df_aj2[i].Preco_sugerido]

\* a price filled by the first pass is kept while another row, left unset by the
\* first pass, is filled by the second
C4_Witness ==
    /\ call.op = "reaplicar"
    /\ \E i, j \in 1..Len(df_aj) :
        /\ ~Gt0(df_validado[i].Preco_sugerido)
        /\ Gt0(df_aj[i].Preco_sugerido)
        /\ df_aj2[i] = df_aj[i]
        /\ IsNa(df_aj[j].Preco_sugerido)
        /\ Gt0(df_aj2[j].Preco_sugerido)

\* C6: aplicar_preco_sugerido leaves every row whose target field is present and
\* > 0 as it was in the input.
C6_DeclaredUntouched ==
    call.op = "aplicar" =>
        /\ Len(df_aj) = Len(call.arg)
        /\ \A i \in 1..Len(call.arg) :
            Gt0(call.arg[i].Preco_sugerido) => df_aj[i] = call.arg[i]

\* a declared price is kept in a call that fills another row with another value
C6_Witness ==
    /\ call.op = "aplicar"
    /\ \E i, j \in 1..Len(call.arg) :
        /\ Gt0(call.arg[i].Preco_sugerido)
        /\ df_aj[i] = call.arg[i]
        /\ ~Gt0(call.arg[j].Preco_sugerido)
        /\ Gt0(df_aj[j].Preco_sugerido)
        /\ df_aj[j].Preco_sugerido # call.arg[i].Preco_sugerido

\* C7: every row whose target field is absent or <= 0 gets the estimator's value
\* for that row; when that value is absent the field is unset, so that a declared
\* 0 never stays 0.
C7_MaskedFilled ==
    call.op = "aplicar" =>
        \A i \in 1..Len(call.arg) :
            (IsNa(call.arg[i].Preco_sugerido) \/ Le0(call.arg[i].Preco_sugerido)) =>
                /\ df_aj[i].Preco_sugerido = sugest[i]
                /\ df_aj[i].Preco_sugerido # 0

\* a declared 0 becomes unset while an absent price of another row is filled
C7_Witness ==
    /\ call.op = "aplicar"
    /\ \E i, j \in 1..Len(call.arg) :
        /\ call.arg[i].Preco_sugerido = 0
        /\ IsNa(sugest[i])
        /\ IsNa(df_aj[i].Preco_sugerido)
        /\ IsNa(call.arg[j].Preco_sugerido)
        /\ Gt0(sugest[j])
        /\ df_aj[j].Preco_sugerido = sugest[j]

\* C8: neither call changes the row-set passed to it, and the applier returns
\* another row-set than the one it was given.
C8_InputsNotMutated ==
    /\ call.op \in {"sugerir", "aplicar"} => df_validado = call.arg
    /\ call.op = "reaplicar" => df_aj = call.arg
    /\ call.op \in {"aplicar", "reaplicar"} => call.fresh

\* the applier, and the estimator inside it, worked on rows that differ from the
\* caller's: an identifier was trimmed and a price was filled
C8_Witness ==
    /\ call.op = "aplicar"
    /\ Normalize(call.arg) # call.arg
    /\ df_aj # call.arg
    /\ df_validado = call.arg

\* the cascade on an empty store: rules 1, 3 and 4, else unset
CascadeNoStore(batch, row) ==
    LET t1 == row.Preco_sugerido
        t3 == Median(BatchValues(batch, row, "Preco_real"))
        t4 == Median(BatchValues(batch, row, "Preco_sugerido"))
    IN IF Gt0(t1) THEN t1
       ELSE IF Gt0(t3) THEN t3
       ELSE IF Gt0(t4) THEN t4
       ELSE NaN

C19_StoreReadOnly ==
    [][call'.op \in {"sugerir", "aplicar", "reaplicar"} =>
          /\ hist_parquet' = hist_parquet
          /\ hist_csv' = hist_csv
          /\ StoreEntries' = StoreEntries]_vars

\* the applier ran twice on a store that holds entries, read them, and filled a
\* price from them
C19_Witness ==
    /\ call.op = "reaplicar"
    /\ call.clean
    /\ StoreEntries # <<>>
    /\ call.loaded # <<>>
    /\ \E i \in 1..Len(df_aj2) :
        /\ ~Gt0(df_validado[i].Preco_sugerido)
        /\ Gt0(df_aj2[i].Preco_sugerido)
        /\ df_aj2[i].Preco_sugerido = Median(PairPrices(df_validado[i]))

\* the value the rules give a row of a batch with the history frame `hist`
CascadeOn(hist, batch, row) ==
    LET t1 == row.Preco_sugerido
        t2 == MedHist(hist, Strip(row.Loja), Strip(row.Equipamento))
        t3 == Median(BatchValues(batch, row, "Preco_real"))
        t4 == Median(BatchValues(batch, row, "Preco_sugerido"))
    IN IF Gt0(t1) THEN t1
       ELSE IF Gt0(t2) THEN t2
       ELSE IF Gt0(t3) THEN t3
       ELSE IF Gt0(t4) THEN t4
       ELSE NaN

\* C21: sugerir_precos returns as many values as the row-set has rows, the i-th
\* being the one the rules give the i-th row (with the history frame it
\* loaded), and no value for an empty row-set.
C21_OnePerRowAligned ==
    call.op = "sugerir" =>
        /\ Len(sugest) = Len(call.arg)
        /\ call.arg = <<>> => sugest = <<>>
        /\ \A i \in 1..Len(call.arg) :
              sugest[i] = CascadeOn(call.loaded, call.arg, call.arg[i])

\* two rows that the rules give different values, each at its own position
C21_Witness ==
    /\ call.op = "sugerir"
    /\ Len(call.arg) = 2
    /\ sugest[1] # sugest[2]
    /\ sugest[1] = CascadeOn(call.loaded, call.arg, call.arg[1])
    /\ sugest[2] = CascadeOn(call.loaded, call.arg, call.arg[2])
    /\ sugest[1] # CascadeOn(call.loaded, call.arg, call.arg[2])

----------------------------------------------------------------------------
(* Specification of the medians of the estimator: sugerir_precos on groups  *)
(* of up to MaxVals prices, in the store or in the batch                    *)

MedValues == {10, 20, 30}

\* stores with 1..MaxVals entries of one (store, equipment) pair
MedStores ==
    {FileOf([k \in 1..Len(f) |-> Entry(<<"7">>, <<"N">>, f[k], 0)]) :
        f \in SeqsUpTo(MedValues, MaxVals) \ {<<>>}}

\* batches of 1..MaxVals rows of one equipment, with prices in one column only;
\* a price of a validated row may be zero
MedBatches(col) ==
    {[k \in 1..Len(f) |->
        [Loja |-> <<"7">>, Equipamento |-> <<"N">>,
         Preco_sugerido |-> IF col = "Preco_sugerido" THEN f[k] ELSE NaN,
         Preco_real |-> IF col = "Preco_real" THEN f[k] ELSE NaN]] :
        f \in SeqsUpTo(MedValues \cup {0, NaN}, MaxVals) \ {<<>>}}

InitMedian ==
    /\ \/ /\ hist_parquet \in MedStores
          /\ df_validado \in {b \in MedBatches("Preco_real") : Len(b) = 1}
       \/ /\ hist_parquet = NoFile
          /\ df_validado \in MedBatches("Preco_real") \cup MedBatches("Preco_sugerido")
    /\ hist_csv = NoFile
    /\ sugest = <<>>
    /\ df_aj = <<>>
    /\ df_aj2 = <<>>
    /\ call = NoCall
    /\ now = 0
    /\ pipe = Idle
    /\ writers = <<>>

NextMedian == Sugerir

SpecMedian == InitMedian /\ [][NextMedian]_vars

----------------------------------------------------------------------------
(* Claims about the medians (SpecMedian) *)

\* the k-th smallest of the values of a sequence
KthSmallest(p, k) ==
    CHOOSE v \in {p[i] : i \in 1..Len(p)} :
        /\ Cardinality({i \in 1..Len(p) : p[i] < v}) < k
        /\ Cardinality({i \in 1..Len(p) : p[i] <= v}) >= k

\* the statistical median of the present values: the middle one for an odd
\* count, the mean of the two middle ones for an even count
StdMedian(vals) ==
    LET p == SelectSeq(vals, LAMBDA v : v # NaN)
        n == Len(p)
    IN IF n = 0 THEN NaN
       ELSE IF n % 2 = 1 THEN KthSmallest(p, (n + 1) \div 2)
       ELSE (KthSmallest(p, n \div 2) + KthSmallest(p, (n \div 2) + 1)) \div 2

\* C20: the median of {10, 20, 30} is 20 and that of {10, 20} is 15; and for a
\* row without declared price > 0 the estimate is the statistical median of the
\* present values of the first group that has a usable one: the store entries of
\* the row's pair, the batch's realized prices of the row's equipment, the
\* batch's suggested prices of that equipment.
C20_StandardMedian ==
    (call.op = "sugerir" /\ call.clean) =>
        /\ \A i \in 1..Len(call.arg) :
             ~Gt0(call.arg[i].Preco_sugerido) =>
                LET g == PairPrices(call.arg[i])
                    Has(v) == \E k \in 1..Len(g) : g[k] = v
                IN /\ (Len(g) = 3 /\ Has(10) /\ Has(20) /\ Has(30)) => sugest[i] = 20
                   /\ (Len(g) = 2 /\ Has(10) /\ Has(20)) => sugest[i] = 15
        /\ \A i \in 1..Len(call.arg) :
             ~Gt0(call.arg[i].Preco_sugerido) =>
                LET m2 == StdMedian(PairPrices(call.arg[i]))
                    m3 == StdMedian(BatchValues(call.arg, call.arg[i], "Preco_real"))
                    m4 == StdMedian(BatchValues(call.arg, call.arg[i], "Preco_sugerido"))
                IN sugest[i] = IF Gt0(m2) THEN m2
                               ELSE IF Gt0(m3) THEN m3
                               ELSE IF Gt0(m4) THEN m4
                               ELSE NaN

\* a row priced from a group of two different values gets their mean, which is
\* neither of them
C20_Witness ==
    /\ call.op = "sugerir"
    /\ call.clean
    /\ Len(PairPrices(call.arg[1])) = 2
    /\ PairPrices(call.arg[1])[1] # PairPrices(call.arg[1])[2]
    /\ sugest[1] = (PairPrices(call.arg[1])[1] + PairPrices(call.arg[1])[2]) \div 2
    /\ sugest[1] # PairPrices(call.arg[1])[1]
    /\ sugest[1] # PairPrices(call.arg[1])[2]

\* C23: every value sugerir_precos returns is unset or > 0, also for a row whose
\* group medians are 0.
C23_UnsetOrPositive ==
    call.op = "sugerir" =>
        \A i \in 1..Len(sugest) : sugest[i] = NaN \/ sugest[i] > 0

\* a row without declared price whose batch has a median of 0 in the realized
\* prices of its equipment (and no suggested price): it stays unset
C23_Witness ==
    /\ call.op = "sugerir"
    /\ Len(call.arg) >= 2
    /\ ~Gt0(call.arg[1].Preco_sugerido)
    /\ StdMedian(PairPrices(call.arg[1])) = NaN
    /\ StdMedian(BatchValues(call.arg, call.arg[1], "Preco_real")) = 0
    /\ sugest[1] = NaN

----------------------------------------------------------------------------
(* Specification of the identifiers: a row-set is handed to the History     *)
(* Updater and a row-set to the estimator, with identifiers written with or *)
(* without surrounding blanks and in either letter case. The store is kept  *)
(* in the parquet file.                                                     *)

KeyLojas == {<<"7">>, <<" ", "7">>}
KeyEquipamentos == {<<"N">>, <<"N", " ">>, <<" ", "N">>, <<"n">>}

\* one row with a realized price, for the History Updater
KeyAddBatches ==
    {<<[Loja |-> lj, Equipamento |-> eq, Preco_sugerido |-> NaN, Preco_real |-> 16]>> :
        lj \in KeyLojas, eq \in KeyEquipamentos}

\* one row without prices, for the estimator
KeyBatches ==
    {<<[Loja |-> lj, Equipamento |-> eq, Preco_sugerido |-> NaN, Preco_real |-> NaN]>> :
        lj \in KeyLojas, eq \in KeyEquipamentos}

InitKeys ==
    /\ hist_parquet = NoFile
    /\ hist_csv = NoFile
    /\ df_validado \in KeyBatches
    /\ sugest = <<>>
    /\ df_aj = <<>>
    /\ df_aj2 = <<>>
    /\ call = NoCall
    /\ now = 0
    /\ pipe = Idle
    /\ writers = <<>>

\* atualizar_historico(batch) on the empty store
KeysAtualizar ==
    /\ call.op = "init"
    /\ \E batch \in KeyAddBatches :
        LET r == atualizar_historico(batch, hist_parquet, hist_csv, now, TRUE, TRUE, TRUE)
        IN /\ hist_parquet' = r.pq
           /\ hist_csv' = r.csv
           /\ call' = [NoCall EXCEPT !.op = "atualizar", !.arg = batch,
                          !.loaded = r.loaded, !.added = r.added, !.wrote = r.wrote,
                          !.ret = r.ret, !.io = r.io]
    /\ UNCHANGED <<df_validado, sugest, df_aj, df_aj2, now, pipe, writers>>

\* sugest = sugerir_precos(df_validado) on the store the update left
KeysSugerir ==
    /\ call.op = "atualizar"
    /\ \E o \in ReadOutcomes(hist_parquet, hist_csv) :
        LET hist == carregar_historico(hist_parquet, hist_csv, o.pq_ok, o.csv_ok)
            r == sugerir_precos(df_validado, hist)
        IN /\ sugest' = r.ret
           /\ df_validado' = r.arg
           /\ call' = [NoCall EXCEPT !.op = "sugerir", !.loaded = hist,
                          !.from = LoadedFrom(hist_parquet, hist_csv, o.pq_ok, o.csv_ok),
                          !.clean = CleanRead(hist_parquet, hist_csv, o.pq_ok, o.csv_ok),
                          !.arg = df_validado]
    /\ UNCHANGED <<hist_parquet, hist_csv, df_aj, df_aj2, now, pipe, writers>>

NextKeys == KeysAtualizar \/ KeysSugerir

SpecKeys == InitKeys /\ [][NextKeys]_vars

----------------------------------------------------------------------------
(* Claims about the identifiers (SpecKeys) *)

\* realized prices of the stored entries whose identifiers, trimmed, are the
\* trimmed identifiers of a row
TrimmedPairPrices(row) ==
    LET grp == SelectSeq(StoreEntries, LAMBDA e :
                   /\ Strip(e.Loja) = Strip(row.Loja)
                   /\ Strip(e.Equipamento) = Strip(row.Equipamento))
    IN [k \in 1..Len(grp) |-> grp[k].PrecoReal]

----------------------------------------------------------------------------
(* Specification of the Historical Store: Load, Save and Append by one      *)
(* process, from the store of a fresh installation. Each read of a file and *)
(* each use of the parquet writer may fail.                                 *)

\* batches handed to the History Updater: rows that qualify, or no row at all
\* (rows with a price unset or zero are those of AppendRows, in SpecAppend)
AddRows == [Loja : {<<"7">>}, Equipamento : {<<"N">>},
            Preco_sugerido : {NaN}, Preco_real : {8}]

AddBatches == SeqsUpTo(AddRows, MaxAddRows)

\* frames handed to salvar_historico directly
SaveFrames(stamp) ==
    {[k \in 1..m |-> Entry(<<"7">>, <<"N">>, 8, stamp)] : m \in 0..(HistCap + 1)}

Init ==
    /\ hist_parquet = NoFile
    /\ hist_csv = NoFile
    /\ df_validado = <<>>
    /\ sugest = <<>>
    /\ df_aj = <<>>
    /\ df_aj2 = <<>>
    /\ call = NoCall
    /\ now = 0
    /\ pipe = Idle
    /\ writers = <<>>

\* the local wall clock moves; it is not monotonic (it is set back when daylight
\* saving time ends or the clock is corrected)
Tick ==
    /\ \E t \in 0..MaxClock : t # now /\ now' = t
    /\ UNCHANGED <<hist_parquet, hist_csv, df_validado, sugest, df_aj, df_aj2, call, pipe, writers>>

\* hist = carregar_historico()
Carregar ==
    /\ \E o \in ReadOutcomes(hist_parquet, hist_csv) :
        call' = [NoCall EXCEPT !.op = "carregar",
                    !.loaded = carregar_historico(hist_parquet, hist_csv, o.pq_ok, o.csv_ok),
                    !.from = LoadedFrom(hist_parquet, hist_csv, o.pq_ok, o.csv_ok),
                    !.clean = CleanRead(hist_parquet, hist_csv, o.pq_ok, o.csv_ok)]
    /\ UNCHANGED <<hist_parquet, hist_csv, df_validado, sugest, df_aj, df_aj2, now, pipe, writers>>

\* salvar_historico(df_hist)
Salvar ==
    /\ \E df_hist \in SaveFrames(now), w_ok \in BOOLEAN :
        LET sv == salvar_historico(df_hist, hist_parquet, hist_csv, w_ok)
        IN /\ hist_parquet' = sv.pq
           /\ hist_csv' = sv.csv
           /\ call' = [NoCall EXCEPT !.op = "salvar", !.arg = df_hist,
                          !.wrote = sv.wrote, !.io = TRUE]
    /\ UNCHANGED <<df_validado, sugest, df_aj, df_aj2, now, pipe, writers>>

\* n = atualizar_historico(df_validado)
Atualizar ==
    /\ \E batch \in AddBatches, o \in ReadOutcomes(hist_parquet, hist_csv), w_ok \in BOOLEAN :
        LET r == atualizar_historico(batch, hist_parquet, hist_csv, now,
                                     o.pq_ok, o.csv_ok, w_ok)
        IN /\ hist_parquet' = r.pq
           /\ hist_csv' = r.csv
           /\ call' = [NoCall EXCEPT !.op = "atualizar", !.arg = batch,
                          !.loaded = r.loaded, !.added = r.added, !.wrote = r.wrote,
                          !.ret = r.ret, !.io = r.io,
                          !.from = IF r.io
                                   THEN LoadedFrom(hist_parquet, hist_csv, o.pq_ok, o.csv_ok)
                                   ELSE "none",
                          !.clean = r.io => CleanRead(hist_parquet, hist_csv, o.pq_ok, o.csv_ok)]
    /\ UNCHANGED <<df_validado, sugest, df_aj, df_aj2, now, pipe, writers>>

Next == Tick \/ Carregar \/ Salvar \/ Atualizar

Spec == Init /\ [][Next]_vars

----------------------------------------------------------------------------
(* Claims about the Historical Store (Spec) *)

\* the rows of the file the last save wrote, as texts
WrittenRows == IF call.wrote = "parquet" THEN ToCsv(hist_parquet.rows)
               ELSE IF call.wrote = "csv" THEN hist_csv.rows
               ELSE <<>>

\* C9: after any sequence of Append and Save operations neither file of the store,
\* and so no frame Load returns, holds more entries than the cap.
C9_CapNeverExceeded ==
    /\ Len(hist_parquet.rows) <= HistCap
    /\ Len(hist_csv.rows) <= HistCap
    /\ call.op = "carregar" => Len(call.loaded) <= HistCap

\* a Save was handed more entries than the cap and wrote exactly the cap
C9_Witness ==
    /\ call.op = "salvar"
    /\ Len(call.arg) > HistCap
    /\ Len(WrittenRows) = HistCap

\* C10: when an Append brings the count above the cap, the file it writes holds
\* exactly cap entries: the last cap entries, in order, of the loaded entries
\* followed by the new ones; the entries dropped are the first ones by position.
C10_FifoTrim ==
    (call.op = "atualizar" /\ call.io /\ Len(call.loaded) + Len(call.added) > HistCap) =>
        LET all == ToCsv(call.loaded \o call.added)
            w == WrittenRows
        IN /\ Len(w) = HistCap
           /\ \A k \in 1..HistCap : w[k] = all[Len(all) - HistCap + k]

\* an Append on a full store: the first entry loaded is in the file no more, and
\* the new entries are the last ones of the file
C10_Witness ==
    /\ call.op = "atualizar"
    /\ Len(call.loaded) = HistCap
    /\ Len(call.added) >= 1
    /\ Len(WrittenRows) = HistCap
    /\ \A k \in 1..Len(WrittenRows) : WrittenRows[k] # ToCsv(call.loaded)[1]
    /\ WrittenRows[HistCap] = ToCsv(call.added)[Len(call.added)]

\* C11: a Load that follows a Save and reads without failure returns the entries
\* that Save wrote (same store, equipment, price, source and timestamp, compared
\* as texts), whichever file Save wrote and whatever the two files held before.
C11_SaveLoadRoundTrip ==
    [][(call.op = "salvar" /\ call'.op = "carregar" /\ call'.clean)
          => ToCsv(call'.loaded) = WrittenRows]_vars

\* C12: over Appends by one process, where reads and writes of the parquet file
\* may fail, a completed Append that trims nothing leaves a store from which a
\* Load without read failure returns every entry such a Load returned before the
\* Append, and every entry the Append added.
C12_AppendOnly ==
    [][(call'.op = "atualizar" /\ call'.io
           /\ Len(StoreEntries) + Len(call'.added) <= HistCap)
          => LET after == StoreEntries'
                 InAfter(e) == \E j \in 1..Len(after) : after[j] = e
             IN /\ \A k \in 1..Len(StoreEntries) : InAfter(StoreEntries[k])
                /\ \A k \in 1..Len(call'.added) : InAfter(ToCsv(call'.added)[k])]_vars

C17_SaveFallback ==
    [][call'.op = "salvar" =>
          /\ call'.wrote \in {"parquet", "csv"}
          /\ call'.wrote = "parquet" =>
                 (hist_parquet' = FileOf(Trim(call'.arg)) /\ hist_csv' = hist_csv)
          /\ call'.wrote = "csv" =>
                 (hist_csv' = FileOf(ToCsv(Trim(call'.arg)))
                  /\ hist_parquet' = hist_parquet)]_vars

\* a Save whose parquet write succeeded, beside a csv file that holds other
\* entries than the ones saved
C17_Witness ==
    /\ call.op = "salvar"
    /\ call.wrote = "parquet"
    /\ call.arg # <<>>
    /\ hist_parquet.rows = Trim(call.arg)
    /\ hist_csv.exists
    /\ hist_csv.rows # ToCsv(hist_parquet.rows)

\* the entries an Append added carry the tag "input_atual" and one timestamp
SameTagAndStamp ==
    call.op = "atualizar" =>
        \A k \in 1..Len(call.added) :
            /\ call.added[k].Fonte = FONTE
            /\ call.added[k].ts = call.added[1].ts

\* C25: the entries one Append adds carry the same tag and the same timestamp,
\* and in each file of the store the timestamps never decrease from one entry
\* to the next.
C25_TimestampsMonotonic ==
    /\ SameTagAndStamp
    /\ \A j, k \in 1..Len(hist_parquet.rows) :
          j < k => hist_parquet.rows[j].ts <= hist_parquet.rows[k].ts
    /\ \A j, k \in 1..Len(hist_csv.rows) :
          j < k => hist_csv.rows[j].ts <= hist_csv.rows[k].ts

----------------------------------------------------------------------------
(* Specification of one Append: atualizar_historico called on a validated   *)
(* row-set, as processar_arquivo calls it, on a store left by earlier runs  *)

\* realized prices of a validated row-set: unset, zero, or positive
AppendPrices == {NaN, 0, 8, 16}

AppendRows == [Loja : {<<"7">>}, Equipamento : {<<"N">>},
               Preco_sugerido : {NaN}, Preco_real : AppendPrices]

AppendBatches == SeqsUpTo(AppendRows, MaxRows)

InitAppend ==
    /\ \E st \in InitStores : hist_parquet = st.pq /\ hist_csv = st.csv
    /\ df_validado \in AppendBatches
    /\ sugest = <<>>
    /\ df_aj = <<>>
    /\ df_aj2 = <<>>
    /\ call = NoCall
    /\ now \in 0..MaxClock
    /\ pipe = Idle
    /\ writers = <<>>

\* _ = atualizar_historico(df_ok)
AtualizarValidado ==
    /\ call.op = "init"
    /\ \E o \in ReadOutcomes(hist_parquet, hist_csv), w_ok \in BOOLEAN :
        LET r == atualizar_historico(df_validado, hist_parquet, hist_csv, now,
                                     o.pq_ok, o.csv_ok, w_ok)
        IN /\ hist_parquet' = r.pq
           /\ hist_csv' = r.csv
           /\ call' = [NoCall EXCEPT !.op = "atualizar", !.arg = df_validado,
                          !.loaded = r.loaded, !.added = r.added, !.wrote = r.wrote,
                          !.ret = r.ret, !.io = r.io,
                          !.from = IF r.io
                                   THEN LoadedFrom(hist_parquet, hist_csv, o.pq_ok, o.csv_ok)
                                   ELSE "none",
                          !.clean = r.io => CleanRead(hist_parquet, hist_csv, o.pq_ok, o.csv_ok)]
    /\ UNCHANGED <<df_validado, sugest, df_aj, df_aj2, now, pipe, writers>>

NextAppend == AtualizarValidado

SpecAppend == InitAppend /\ [][NextAppend]_vars

----------------------------------------------------------------------------
(* Claims about one Append (SpecAppend) *)

\* positions, in row order, of the rows of a batch whose realized price is
\* present and > 0
PricedAt(batch) ==
    LET S == {i \in 1..Len(batch) : Gt0(batch[i].Preco_real)}
    IN CHOOSE f \in [1..Cardinality(S) -> 1..Len(batch)] :
        /\ {f[k] : k \in 1..Cardinality(S)} = S
        /\ \A j, k \in 1..Cardinality(S) : j < k => f[j] < f[k]

\* C13: when nothing is trimmed, the file an Append writes holds the loaded
\* entries in their order followed by the new entries, which are in the order of
\* the batch rows they come from.
C13_AppendAfterExisting ==
    (call.op = "atualizar" /\ call.io) =>
        /\ Len(call.loaded) + Len(call.added) <= HistCap =>
               WrittenRows = ToCsv(call.loaded) \o ToCsv(call.added)
        /\ \A k \in 1..Len(call.added) :
               /\ k <= Len(PricedAt(call.arg))
               /\ call.added[k].PrecoReal = call.arg[PricedAt(call.arg)[k]].Preco_real

\* an Append of one entry to a store of one other entry writes the two, the
\* stored one first
C13_Witness ==
    /\ call.op = "atualizar"
    /\ Len(call.loaded) = 1
    /\ Len(call.added) = 1
    /\ ToCsv(call.loaded)[1] # ToCsv(call.added)[1]
    /\ WrittenRows = <<ToCsv(call.loaded)[1], ToCsv(call.added)[1]>>

\* C14: atualizar_historico returns the number of batch rows whose realized price
\* is present and > 0 and adds one entry for each of them, in row order, made of
\* the row's store, equipment and realized price; the written file ends with
\* these entries, and each of them has a price > 0.
C14_AppendsQualifying ==
    call.op = "atualizar" =>
        LET idx == PricedAt(call.arg)
            n == Len(call.added)
            w == WrittenRows
        IN /\ call.ret = Len(idx)
           /\ n = Len(idx)
           /\ call.io = (n > 0)
           /\ \A k \in 1..n :
                /\ call.added[k].Loja = StrCell(call.arg[idx[k]].Loja)
                /\ call.added[k].Equipamento = StrCell(call.arg[idx[k]].Equipamento)
                /\ call.added[k].PrecoReal = call.arg[idx[k]].Preco_real
                /\ call.added[k].PrecoReal > 0
           /\ \A k \in 1..n :
                k <= HistCap => (/\ Len(w) >= k
                                 /\ w[Len(w) - k + 1] = ToCsv(call.added)[n - k + 1])

\* a batch with a price of zero and a price > 0: one entry is added
C14_Witness ==
    /\ call.op = "atualizar"
    /\ \E i \in 1..Len(call.arg) : call.arg[i].Preco_real = 0
    /\ \E i \in 1..Len(call.arg) : call.arg[i].Preco_real > 0
    /\ call.ret = 1
    /\ Len(call.added) = 1
    /\ WrittenRows[Len(WrittenRows)] = ToCsv(call.added)[1]

\* C15: on a batch that is empty or has no realized price present and > 0,
\* atualizar_historico returns 0, loads nothing, writes nothing, and leaves both
\* files of the store as they were.
C15_NothingToAppend ==
    [][(call'.op = "atualizar"
           /\ \A i \in 1..Len(call'.arg) : ~Gt0(call'.arg[i].Preco_real))
          => /\ call'.ret = 0
             /\ ~call'.io
             /\ call'.from = "none"
             /\ call'.wrote = "none"
             /\ hist_parquet' = hist_parquet
             /\ hist_csv' = hist_csv]_vars

\* a batch of rows with prices unset or zero, on a store that holds entries
C15_Witness ==
    /\ call.op = "atualizar"
    /\ call.arg # <<>>
    /\ \A i \in 1..Len(call.arg) : ~Gt0(call.arg[i].Preco_real)
    /\ \E i \in 1..Len(call.arg) : call.arg[i].Preco_real = 0
    /\ call.ret = 0
    /\ ~call.io
    /\ hist_parquet.exists
    /\ hist_parquet.rows # <<>>

----------------------------------------------------------------------------
(* The pipeline: processar_arquivo (src/src/pipeline.py)                    *)

\* order of the characters of the identifiers, as Python compares them
CharOrder == <<" ", "0", "1", "2", "3", "4", "5", "6", "7", "8", "9", "M", "N">>
CharRank(ch) == CHOOSE d \in 1..Len(CharOrder) : CharOrder[d] = ch

RECURSIVE TextLess(_, _)
TextLess(a, b) ==
    IF b = <<>> THEN FALSE
    ELSE IF a = <<>> THEN TRUE
    ELSE IF Head(a) = Head(b) THEN TextLess(Tail(a), Tail(b))
    ELSE CharRank(Head(a)) < CharRank(Head(b))

RECURSIVE SortTexts(_)
SortTexts(S) ==
    IF S = {} THEN <<>>
    ELSE LET m == CHOOSE x \in S : \A y \in S \ {x} : TextLess(x, y)
         IN <<m>> \o SortTexts(S \ {m})

\* the split that keeps all rows in one group
separar_por_loja_unico(df_validos) ==
    IF df_validos = <<>> THEN <<>>
    ELSE <<[loja |-> df_validos[1].Loja, df |-> df_validos]>>

\* separar_por_loja: one group per store, in the order of the store keys, each
\* holding the rows of that store in the order of the validated frame
separar_por_loja(df_validos) ==
    LET keys == SortTexts({df_validos[k].Loja : k \in 1..Len(df_validos)})
    IN [g \in 1..Len(keys) |->
          [loja |-> keys[g],
           df |-> SelectSeq(df_validos, LAMBDA r : r.Loja = keys[g])]]

\* df_aj["PrecoSugeridoCalc"] = sugerir_precos(df_loja)
WithCalc(df, s) == [k \in 1..Len(df) |->
    [Loja |-> df[k].Loja, Equipamento |-> df[k].Equipamento,
     Preco_sugerido |-> df[k].Preco_sugerido, Preco_real |-> df[k].Preco_real,
     PrecoSugeridoCalc |-> s[k]]]

\* rows that pass carregar_e_validar: identifiers trimmed, prices absent or >= 0
ValidRows == {[Loja |-> lj, Equipamento |-> <<"N">>, Preco_sugerido |-> sg, Preco_real |-> re] :
                lj \in {<<"7">>, <<"9">>}, sg \in {NaN, 8}, re \in {NaN, 16}}

ValidBatches == SeqsUpTo(ValidRows, MaxRows)

\* a run that goes to the History Updater first
RunUpdaterFirst(df_ok, has_err) ==
    [pc |-> "historico", df_ok |-> df_ok, has_err |-> has_err,
     todo |-> separar_por_loja(df_ok), cur |-> <<>>, ajustados |-> <<>>,
     status |-> "none", erros_path |-> has_err, reports |-> FALSE,
     loads |-> 0, clean |-> TRUE, ret |-> 0]

\* a run that has not returned: where it is, what validation gave it, the groups
\* still to price, the groups priced, and what it has done so far
Run(df_ok, has_err) ==
    [pc |-> "aplicar", df_ok |-> df_ok, has_err |-> has_err,
     todo |-> separar_por_loja(df_ok), cur |-> <<>>, ajustados |-> <<>>,
     status |-> "none", erros_path |-> has_err, reports |-> FALSE,
     loads |-> 0, clean |-> TRUE, ret |-> 0]

\* the validation step with the two statuses of the early return exchanged
ProcValidarTrocado ==
    /\ pipe.pc = "idle"
    /\ \E df_ok \in ValidBatches, has_err \in BOOLEAN :
        pipe' = IF df_ok = <<>> \/ separar_por_loja(df_ok) = <<>>
                THEN [Run(df_ok, has_err) EXCEPT !.pc = "done",
                         !.status = IF has_err THEN "vazio" ELSE "erro_validacao"]
                ELSE Run(df_ok, has_err)
    /\ UNCHANGED <<hist_parquet, hist_csv, df_validado, sugest, df_aj, df_aj2, call, now, writers>>

\* 1) carregar_e_validar, and the return without valid rows
ProcValidar ==
    /\ pipe.pc = "idle"
    /\ \E df_ok \in ValidBatches, has_err \in BOOLEAN :
        pipe' = IF df_ok = <<>> \/ separar_por_loja(df_ok) = <<>>
                THEN [Run(df_ok, has_err) EXCEPT !.pc = "done",
                         !.status = IF has_err THEN "erro_validacao" ELSE "vazio"]
                ELSE Run(df_ok, has_err)
    /\ UNCHANGED <<hist_parquet, hist_csv, df_validado, sugest, df_aj, df_aj2, call, now, writers>>

\* 2) the loop of _aplicar_precos_sugeridos_por_loja, first half:
\*    df_aj = aplicar_preco_sugerido(df_loja)
ProcAplicar ==
    /\ pipe.pc = "aplicar"
    /\ \E o \in ReadOutcomes(hist_parquet, hist_csv) :
        LET hist == carregar_historico(hist_parquet, hist_csv, o.pq_ok, o.csv_ok)
            r == aplicar_preco_sugerido(Head(pipe.todo).df, hist)
        IN pipe' = [pipe EXCEPT !.pc = "calc", !.cur = r.ret, !.loads = @ + 1,
                       !.clean = @ /\ CleanRead(hist_parquet, hist_csv, o.pq_ok, o.csv_ok)]
    /\ UNCHANGED <<hist_parquet, hist_csv, df_validado, sugest, df_aj, df_aj2, call, now, writers>>

\*    second half: df_aj["PrecoSugeridoCalc"] = sugerir_precos(df_loja)
ProcCalc ==
    /\ pipe.pc = "calc"
    /\ \E o \in ReadOutcomes(hist_parquet, hist_csv) :
        LET hist == carregar_historico(hist_parquet, hist_csv, o.pq_ok, o.csv_ok)
            r == sugerir_precos(Head(pipe.todo).df, hist)
        IN pipe' = [pipe EXCEPT
                       !.pc = IF Tail(pipe.todo) = <<>> THEN "relatorios" ELSE "aplicar",
                       !.ajustados = Append(@, [loja |-> Head(pipe.todo).loja,
                                                df |-> WithCalc(pipe.cur, r.ret)]),
                       !.todo = Tail(@), !.cur = <<>>, !.loads = @ + 1,
                       !.clean = @ /\ CleanRead(hist_parquet, hist_csv, o.pq_ok, o.csv_ok)]
    /\ UNCHANGED <<hist_parquet, hist_csv, df_validado, sugest, df_aj, df_aj2, call, now, writers>>

\* 3) and 4) the per-store workbooks and the summary are written from grupos_aj
ProcRelatorios ==
    /\ pipe.pc = "relatorios"
    /\ pipe' = [pipe EXCEPT !.pc = "historico", !.reports = TRUE]
    /\ UNCHANGED <<hist_parquet, hist_csv, df_validado, sugest, df_aj, df_aj2, call, now, writers>>

\* 5) atualizar_historico(df_ok), and the return with status "ok"
ProcAtualizar ==
    /\ pipe.pc = "historico"
    /\ \E o \in ReadOutcomes(hist_parquet, hist_csv), w_ok \in BOOLEAN :
        LET r == atualizar_historico(pipe.df_ok, hist_parquet, hist_csv, now,
                                     o.pq_ok, o.csv_ok, w_ok)
        IN /\ hist_parquet' = r.pq
           /\ hist_csv' = r.csv
           /\ pipe' = [pipe EXCEPT !.pc = "done", !.status = "ok", !.ret = r.ret,
                          !.loads = IF r.io THEN @ + 1 ELSE @]
    /\ UNCHANGED <<df_validado, sugest, df_aj, df_aj2, call, now, writers>>

InitPipeline ==
    /\ \E st \in InitStores : hist_parquet = st.pq /\ hist_csv = st.csv
    /\ df_validado = <<>>
    /\ sugest = <<>>
    /\ df_aj = <<>>
    /\ df_aj2 = <<>>
    /\ call = NoCall
    /\ now = 0
    /\ pipe = Idle
    /\ writers = <<>>

NextPipeline == ProcValidar \/ ProcAplicar \/ ProcCalc \/ ProcRelatorios \/ ProcAtualizar

SpecPipeline == InitPipeline /\ [][NextPipeline]_vars

----------------------------------------------------------------------------
(* Claims about the pipeline (SpecPipeline) *)

\* the row of the priced groups that came from row i of the validated batch
PricedRow(i) ==
    LET lj == pipe.df_ok[i].Loja
        g == CHOOSE x \in 1..Len(pipe.ajustados) : pipe.ajustados[x].loja = lj
        k == Cardinality({j \in 1..i : pipe.df_ok[j].Loja = lj})
    IN pipe.ajustados[g].df[k]

\* C5: in a run of processar_arquivo whose reads of the store did not fail, a row
\* with no usable declared price and no usable historical median is given the
\* median of the realized prices of all rows of the validated batch with its
\* equipment name, whatever their store (when that median is present and > 0).
C5_BatchMedianAcrossStores ==
    (pipe.pc = "relatorios" /\ pipe.clean) =>
        \A i \in 1..Len(pipe.df_ok) :
            LET row == pipe.df_ok[i]
                t3 == Median(BatchValues(pipe.df_ok, row, "Preco_real"))
            IN (/\ ~Gt0(row.Preco_sugerido)
                /\ ~Gt0(Median(PairPrices(row)))
                /\ Gt0(t3))
               => PricedRow(i).Preco_sugerido = t3

\* the stores of the validated batch of the run
RunLojas == {pipe.df_ok[k].Loja : k \in 1..Len(pipe.df_ok)}

\* C24 as stated: a run that returns "ok" has loaded the store exactly twice.
C24_TwoLoads ==
    (pipe.pc = "done" /\ pipe.status = "ok") => pipe.loads = 2

\* C24 amended: a run that returns "ok" has loaded the store twice for every
\* store group of the batch (the applier's estimate and the diagnostic estimate)
\* and once more in the History Updater when some row has a realized price > 0.
C24_LoadsPerGroup ==
    (pipe.pc = "done" /\ pipe.status = "ok") =>
        pipe.loads = 2 * Cardinality(RunLojas)
                     + (IF \E k \in 1..Len(pipe.df_ok) : Gt0(pipe.df_ok[k].Preco_real)
                        THEN 1 ELSE 0)

\* a run over two stores with a realized price: five loads
C24_Witness ==
    /\ pipe.pc = "done"
    /\ pipe.status = "ok"
    /\ Cardinality(RunLojas) = 2
    /\ pipe.ret > 0
    /\ pipe.loads = 5

\* C26: in a run the files of the store change only in the History Updater step,
\* which is taken after every group has been priced and the reports written; the
\* run returns "ok" from that step only.
C26_UpdaterLast ==
    [][/\ (hist_parquet' # hist_parquet \/ hist_csv' # hist_csv) =>
             (/\ pipe.pc = "historico"
              /\ pipe.reports
              /\ pipe.todo = <<>>
              /\ Len(pipe.ajustados) = Cardinality(RunLojas))
       /\ (pipe'.pc = "done" /\ pipe'.status = "ok") =>
             (pipe.pc = "historico" /\ pipe.reports)]_vars

\* a finished run in which a row with a realized price was priced from the
\* store as it was before the run, not from the store the run left
C26_Witness ==
    /\ pipe.pc = "done"
    /\ pipe.status = "ok"
    /\ pipe.clean
    /\ pipe.ret > 0
    /\ hist_parquet.exists
    /\ \E i \in 1..Len(pipe.df_ok) :
        /\ ~Gt0(pipe.df_ok[i].Preco_sugerido)
        /\ Gt0(pipe.df_ok[i].Preco_real)
        /\ PricedRow(i).Preco_sugerido = 8
        /\ Median(PairPrices(pipe.df_ok[i])) # 8

\* C27: the step in which processar_arquivo returns gives "ok" exactly when
\* there is a valid row; with none it gives "erro_validacao" if a row was
\* rejected, else "vazio", having written no report, loaded nothing and left both
\* store files as they were. erros_path is set exactly when a row was rejected.
C27_StatusByValidation ==
    [][pipe'.pc = "done" =>
          /\ (pipe'.status = "ok") = (pipe'.df_ok # <<>>)
          /\ pipe'.erros_path = pipe'.has_err
          /\ pipe'.df_ok = <<>> =>
                /\ pipe'.status = (IF pipe'.has_err THEN "erro_validacao" ELSE "vazio")
                /\ ~pipe'.reports
                /\ pipe'.loads = 0
                /\ pipe'.ajustados = <<>>
                /\ hist_parquet' = hist_parquet
                /\ hist_csv' = hist_csv]_vars

\* a run whose rows were all rejected, on a store that holds entries
C27_Witness ==
    /\ pipe.pc = "done"
    /\ pipe.status = "erro_validacao"
    /\ pipe.df_ok = <<>>
    /\ pipe.erros_path
    /\ ~pipe.reports
    /\ StoreEntries # <<>>

----------------------------------------------------------------------------
(* Specification of two processes appending to one store: each runs         *)
(* atualizar_historico on its own batch. The call takes no lock, so the     *)
(* other process can run between its load (pricing.py line 95) and its save *)
(* (line 97). A read or a write of one file is taken as one step.           *)

Procs == {1, 2}

\* the realized price of the rows of each process, to tell their entries apart
WriterPrice(p) == IF p = 1 THEN 8 ELSE 16

WriterBatches(p) ==
    {[k \in 1..m |-> [Loja |-> <<"7">>, Equipamento |-> <<"N">>,
                      Preco_sugerido |-> NaN, Preco_real |-> WriterPrice(p)]] :
        m \in 1..MaxAddRows}

\* the clock at the calls is later than the stamps of the stored entries
InitWriters ==
    /\ \E st \in InitStores : hist_parquet = st.pq /\ hist_csv = st.csv
    /\ df_validado = <<>>
    /\ sugest = <<>>
    /\ df_aj = <<>>
    /\ df_aj2 = <<>>
    /\ call = NoCall
    /\ now = 1
    /\ pipe = Idle
    /\ writers \in [Procs -> {[pc |-> "start", batch |-> b, df_add |-> <<>>,
                               hist |-> <<>>, ret |-> 0, raced |-> FALSE] :
                                  b \in WriterBatches(1) \cup WriterBatches(2)}]
    /\ \A p \in Procs : writers[p].batch \in WriterBatches(p)

\* lines 79-95 of atualizar_historico in process p: the early returns, df_add
\* built and stamped, hist = carregar_historico()
WriterLoad(p) ==
    /\ writers[p].pc = "start"
    /\ \E o \in ReadOutcomes(hist_parquet, hist_csv) :
        LET df_add == DfAdd(writers[p].batch, now) IN
        writers' = [writers EXCEPT ![p] =
            IF writers[p].batch = <<>> \/ df_add = <<>>
            THEN [@ EXCEPT !.pc = "done", !.ret = 0]
            ELSE [@ EXCEPT !.pc = "loaded", !.df_add = df_add,
                     !.hist = carregar_historico(hist_parquet, hist_csv,
                                                 o.pq_ok, o.csv_ok)]]
    /\ UNCHANGED <<hist_parquet, hist_csv, df_validado, sugest, df_aj, df_aj2, call,
                   now, pipe>>

\* the save of a process that loads the store again and appends to what it finds
WriterSaveMerge(p) ==
    /\ writers[p].pc = "loaded"
    /\ \E w_ok \in BOOLEAN :
        LET sv == salvar_historico(
                      carregar_historico(hist_parquet, hist_csv, TRUE, TRUE)
                          \o writers[p].df_add, hist_parquet, hist_csv, w_ok)
        IN /\ hist_parquet' = sv.pq
           /\ hist_csv' = sv.csv
    /\ writers' = [writers EXCEPT ![p] =
            [@ EXCEPT !.pc = "done", !.ret = Len(writers[p].df_add),
                      !.raced = \E q \in Procs \ {p} : writers[q].pc = "loaded"]]
    /\ UNCHANGED <<df_validado, sugest, df_aj, df_aj2, call, now, pipe>>

\* lines 96-98 in process p: hist_new = concat([hist, df_add]),
\* salvar_historico(hist_new), return len(df_add).
\* raced: the other process had loaded and not yet saved when this one saved
WriterSave(p) ==
    /\ writers[p].pc = "loaded"
    /\ \E w_ok \in BOOLEAN :
        LET sv == salvar_historico(writers[p].hist \o writers[p].df_add,
                                   hist_parquet, hist_csv, w_ok)
        IN /\ hist_parquet' = sv.pq
           /\ hist_csv' = sv.csv
    /\ writers' = [writers EXCEPT ![p] =
            [@ EXCEPT !.pc = "done", !.ret = Len(writers[p].df_add),
                      !.raced = \E q \in Procs \ {p} : writers[q].pc = "loaded"]]
    /\ UNCHANGED <<df_validado, sugest, df_aj, df_aj2, call, now, pipe>>

NextWriters == \E p \in Procs : WriterLoad(p) \/ WriterSave(p)

SpecWriters == InitWriters /\ [][NextWriters]_vars

----------------------------------------------------------------------------
(* Claims about concurrent Appends (SpecWriters) *)

\* the entries of process p are among those a Load of the store returns
InStore(p) ==
    \E k \in 1..Len(writers[p].df_add) :
        \E j \in 1..Len(StoreEntries) : StoreEntries[j] = ToCsv(writers[p].df_add)[k]

BothLoadedBeforeSave ==
    /\ \A p \in Procs : writers[p].pc = "done"
    /\ \E p \in Procs : writers[p].raced

\* C29: when two processes run atualizar_historico on the same store and both
\* load before either saves, each call returns the count of its qualifying rows
\* and yet the store afterwards holds none of the entries of one of them
C29_LostUpdate ==
    BothLoadedBeforeSave =>
        /\ \A p \in Procs : /\ writers[p].ret = Len(writers[p].batch)
                            /\ writers[p].ret > 0
        /\ \E p \in Procs : ~InStore(p)

\* both calls returned 1, both loaded before either saved, and the store holds
\* the entry of process 2 and not that of process 1
C29_Witness ==
    /\ BothLoadedBeforeSave
    /\ \A p \in Procs : writers[p].ret = 1
    /\ InStore(2)
    /\ ~InStore(1)

====
